---------------------------- MODULE Spec2Model ----------------------------
(***************************************************************************)
(* A model of the MathForge API (src/main.py): the request handlers of the *)
(* Flask application, the bounded in-memory query history they append to,  *)
(* and the quiz answer_id encoding.                                        *)
(*                                                                         *)
(* Numbers: request operands are integers (floats holding integral values  *)
(* are exact in the ranges used); a value rounded with round(x, 6) is the  *)
(* pair of its whole part and its millionths, a value rounded to 2 places  *)
(* an integer number of hundredths.  Timestamps (datetime.now()) are left  *)
(* out of entries and responses.                                           *)
(***************************************************************************)
EXTENDS Integers, Sequences, FiniteSets, TLC

VARIABLES
    query_history,  \* the module-level list query_history
    appended,       \* history: number of log_query appends since the last clear
    last,           \* the last completed request: endpoint, input, status, body
    nreq,           \* number of requests served so far
    quiz,           \* the question a quiz client holds or has answered, if any
    pc,             \* concurrent model: position of each in-flight log_query
    count,          \* concurrent model: <<count>> of a clear_history in flight, or <<>>
    errors          \* concurrent model: requests whose log_query raised

vars == <<query_history, appended, last, nreq, quiz, pc, count, errors>>

\* ------------------------------------------------------------------ bounds

\* appends explored in the log model (must exceed the capacity by 50)
MaxAppends == 150
\* largest limit asked of get_history beyond the fixed samples
MaxLimit == 3
\* requests served in one run of the full server model
MaxRequests == 2
\* largest coefficient of the equations of the algebra model
MaxCoef == 7
\* requests whose log_query calls run concurrently
NWorkers == 2

\* --------------------------------------------------------------- constants

\* len(query_history) > 100 : the capacity of the history
HistoryCap == 100
\* request.args.get('limit', 20)
DefaultLimit == 20

Missing == "<missing>"
NoRequest == [endpoint |-> "", status |-> 0]
NoQuiz == [state |-> "none"]

Min(a, b) == IF a < b THEN a ELSE b
Max(a, b) == IF a > b THEN a ELSE b
Abs(a) == IF a < 0 THEN -a ELSE a

\* ------------------------------------------------------- strings, numbers

\* Strings that the code formats, splits or parses are sequences of one-character
\* strings over digits, signs, letters, '_' , '.' and ' '.
Digits == <<"0", "1", "2", "3", "4", "5", "6", "7", "8", "9">>
IsDigit(c) == \E i \in 1 .. 10 : Digits[i] = c
DigitVal(c) == (CHOOSE i \in 1 .. 10 : Digits[i] = c) - 1

RECURSIVE NatStr(_)
NatStr(n) == IF n < 10 THEN <<Digits[n + 1]>>
             ELSE Append(NatStr(n \div 10), Digits[(n % 10) + 1])

\* str(n) / f"{n}" of a Python int
str(n) == IF n < 0 THEN <<"-">> \o NatStr(-n) ELSE NatStr(n)

\* str(float(n)) of an integral float: "3.0", "-2.0"
float_str(n) == str(n) \o <<".", "0">>

RECURSIVE DigitsVal(_, _)
DigitsVal(s, acc) == IF s = <<>> THEN acc
                     ELSE DigitsVal(Tail(s), acc * 10 + DigitVal(Head(s)))

RECURSIVE Strip(_)
Strip(s) == IF s = <<>> THEN s
            ELSE IF Head(s) = " " THEN Strip(Tail(s))
            ELSE IF s[Len(s)] = " " THEN Strip(SubSeq(s, 1, Len(s) - 1))
            ELSE s

\* int(s) of a str: surrounding whitespace stripped, an optional sign, then at
\* least one digit and nothing else; otherwise ValueError.
int(s) ==
    LET t == Strip(s)
        signed == t # <<>> /\ Head(t) \in {"-", "+"}
        d == IF signed THEN Tail(t) ELSE t
    IN  IF d # <<>> /\ \A i \in 1 .. Len(d) : IsDigit(d[i])
        THEN [exc |-> "", v |-> IF signed /\ Head(t) = "-" THEN -DigitsVal(d, 0) ELSE DigitsVal(d, 0)]
        ELSE [exc |-> "ValueError", v |-> 0]

\* s.split(sep): always at least one part
RECURSIVE split(_, _)
split(s, sep) ==
    IF s = <<>> THEN << <<>> >>
    ELSE LET rest == split(Tail(s), sep)
         IN  IF Head(s) = sep THEN << <<>> >> \o rest
             ELSE << <<Head(s)>> \o Head(rest) >> \o Tail(rest)

RECURSIVE GCD(_, _)
GCD(a, b) == IF b = 0 THEN a ELSE GCD(b, a % b)

\* the rational n/d in lowest terms with a positive denominator (d # 0)
Rat(n, d) ==
    LET g == GCD(Abs(n), Abs(d))
        s == IF d < 0 THEN -1 ELSE 1
    IN  [num |-> (s * n) \div g, den |-> (s * d) \div g]

\* n/d (d > 0) rounded to the nearest integer, ties to even
RoundDiv(n, d) ==
    LET fl == n \div d
        r == n - fl * d
    IN  IF 2 * r < d THEN fl
        ELSE IF 2 * r > d THEN fl + 1
        ELSE IF fl % 2 = 0 THEN fl ELSE fl + 1

Million == 1000000

\* round(n/d, 6) for d > 0, as whole + micro / 10^6 with 0 <= micro < 10^6
round6(n, d) ==
    LET fl == n \div d
        m == RoundDiv((n - fl * d) * Million, d)
    IN  IF m = Million THEN [whole |-> fl + 1, micro |-> 0]
        ELSE [whole |-> fl, micro |-> m]

\* a round6 value in millionths
Micros(x) == x.whole * Million + x.micro

EmptyObject == [k \in {} |-> 0]

\* ------------------------------------------------------------ JSON values

\* A request body is a function from field names to tagged values; a field that
\* is absent is outside its DOMAIN.  "str" values of numeric fields are
\* non-numeric text; "rat" is a JSON number with a fractional part.
Num(n) == [t |-> "num", v |-> n]
StrV(s) == [t |-> "str", v |-> s]
RatV(n, d) == [t |-> "rat", v |-> Rat(n, d)]
List(xs) == [t |-> "list", v |-> xs]
Bool(b) == [t |-> "bool", v |-> b]
Null == [t |-> "null", v |-> 0]

\* dict.get(key, default)
get(data, key, default) == IF key \in DOMAIN data THEN data[key] ELSE default

\* Python truthiness
truthy(x) ==
    CASE x.t = "bool" -> x.v
      [] x.t = "num" -> x.v # 0
      [] x.t = "rat" -> x.v.num # 0
      [] x.t = "str" -> x.v # ""
      [] x.t = "list" -> x.v # <<>>
      [] OTHER -> FALSE

\* float(x) / Fraction(x) of an operand: the value, ValueError for text that is
\* no number, TypeError for None or a list.  The value is kept as a rational.
float(x) ==
    CASE x.t = "num" -> [exc |-> "", v |-> Rat(x.v, 1)]
      [] x.t = "rat" -> [exc |-> "", v |-> x.v]
      [] x.t = "bool" -> [exc |-> "", v |-> Rat(IF x.v THEN 1 ELSE 0, 1)]
      [] x.t = "str" -> [exc |-> "ValueError", v |-> Rat(0, 1)]
      [] OTHER -> [exc |-> "TypeError", v |-> Rat(0, 1)]

\* float(x) of the integer operands the handlers below are explored with
floatInt(x) ==
    LET f == float(x) IN [exc |-> f.exc, v |-> f.v.num]

\* ------------------------------------------------------------- outcomes

Raise(e) == [exc |-> e]
\* A mutation of the error returns: the reply is written to the history first.
ReplyLogged(status, body) ==
    [status |-> status, body |-> body,
     log |-> << [endpoint |-> "", input |-> Missing, output |-> body] >>]

\* return jsonify(...), status : a return that does not reach log_query
Reply(status, body) == [status |-> status, body |-> body, log |-> <<>>]

\* A mutation of the successful returns: the log_query call is left out.
LoggedNowhere(endpoint, data, response) ==
    [status |-> 200, body |-> response, log |-> <<>>]

\* log_query(endpoint, data, response) followed by return jsonify(response)
Logged(endpoint, data, response) ==
    [status |-> 200, body |-> response,
     log |-> << [endpoint |-> endpoint, input |-> data, output |-> response] >>]

\* handle_errors: ValueError and ZeroDivisionError become 400, any other
\* exception 500.
handle_errors(r) ==
    IF "exc" \in DOMAIN r
    THEN CASE r.exc = "ValueError" -> Reply(400, [error |-> "Invalid input"])
           [] r.exc = "ZeroDivisionError" -> Reply(400, [error |-> "Division by zero"])
           [] OTHER -> Reply(500, [error |-> "Internal server error", message |-> r.exc])
    ELSE r

\* ----------------------------------------------------------- arithmetic

Operations == {"add", "subtract", "multiply", "divide"}

\* str(Fraction(n, d))
fraction_str(r) == IF r.den = 1 THEN str(r.num) ELSE str(r.num) \o <<"/">> \o str(r.den)

\* POST /api/arithmetic
arithmetic(data) ==
    LET operation == get(data, "operation", Null)
        a0 == get(data, "a", Null)
        b0 == get(data, "b", Null)
        use_fractions == truthy(get(data, "fractions", Bool(FALSE)))
        a == floatInt(a0)
        b == floatInt(b0)
        result == CASE operation.v = "add" -> Rat(a.v + b.v, 1)
                    [] operation.v = "subtract" -> Rat(a.v - b.v, 1)
                    [] operation.v = "multiply" -> Rat(a.v * b.v, 1)
                    [] OTHER -> Rat(a.v, b.v)
    IN  IF operation.t = "null" \/ a0.t = "null" \/ b0.t = "null"
        THEN Reply(400, [error |-> "Missing required fields: operation, a, b"])
        ELSE IF a.exc # "" THEN Raise(a.exc)
        ELSE IF b.exc # "" THEN Raise(b.exc)
        ELSE IF operation.t = "list" THEN Raise("TypeError")
        ELSE IF operation.t # "str" \/ operation.v \notin Operations
        THEN Reply(400, [error |-> "Invalid operation"])
        ELSE IF operation.v = "divide" /\ b.v = 0
        THEN Reply(400, [error |-> "Division by zero"])
        ELSE Logged("/api/arithmetic", data,
                 [operation |-> operation.v,
                  operands |-> [a |-> IF use_fractions THEN str(a.v) ELSE float_str(a.v),
                                b |-> IF use_fractions THEN str(b.v) ELSE float_str(b.v)],
                  result |-> IF use_fractions THEN fraction_str(result) ELSE result])

\* -------------------------------------------------------------- algebra

\* round(n/d, 6) for any d # 0
round6q(n, d) == IF d < 0 THEN round6(-n, -d) ELSE round6(n, d)

\* A mutation of solve_linear's rounding: the quotient is cut off, not rounded.
linear_x_truncated(a, b) ==
    LET n == IF a < 0 THEN b ELSE -b
        d == Abs(a)
        t == (n * Million) \div d
    IN  [whole |-> t \div Million, micro |-> t % Million]

\* x = -b / a ; round(x, 6)
linear_x(a, b) == round6q(-b, a)

\* POST /api/algebra/linear
solve_linear(data) ==
    LET a == floatInt(get(data, "a", Num(0)))
        b == floatInt(get(data, "b", Num(0)))
        show_steps == truthy(get(data, "steps", Bool(FALSE)))
        x == linear_x(a.v, b.v)
        response == [equation |-> <<float_str(a.v), "x + ", float_str(b.v), " = 0">>,
                     solution |-> [x |-> x]]
        steps == << <<"Given: ", float_str(a.v), "x + ", float_str(b.v), " = 0">>,
                    <<"Step 1: ", float_str(a.v), "x = -", float_str(b.v)>>,
                    <<"Step 2: x = -", float_str(b.v), "/", float_str(a.v)>>,
                    <<"Solution: x = ", x>> >>
    IN  IF a.exc # "" THEN Raise(a.exc)
        ELSE IF b.exc # "" THEN Raise(b.exc)
        ELSE IF a.v = 0
        THEN Reply(400, [error |-> "Coefficient 'a' cannot be zero"])
        ELSE Logged("/api/algebra/linear", data,
                 IF show_steps THEN response @@ [steps |-> steps] ELSE response)

\* A mutation of the branch test: a zero discriminant is taken for two roots.
solution_type_ge(discriminant) ==
    IF discriminant >= 0 THEN "two_real" ELSE "complex"

\* the if / elif / else on the discriminant
solution_type(discriminant) ==
    IF discriminant > 0 THEN "two_real"
    ELSE IF discriminant = 0 THEN "one_real"
    ELSE "complex"

\* b**2 - 4*a*c
discriminant_of(a, b, c) == b * b - 4 * a * c

\* POST /api/algebra/quadratic.  Roots that need a square root are kept in
\* closed form: (neg_b +/- sqrt(radicand)) / two_a, each rounded to 6 places.
solve_quadratic(data) ==
    LET a == floatInt(get(data, "a", Num(0)))
        b == floatInt(get(data, "b", Num(0)))
        c == floatInt(get(data, "c", Num(0)))
        show_steps == truthy(get(data, "steps", Bool(FALSE)))
        discriminant == discriminant_of(a.v, b.v, c.v)
        type == solution_type(discriminant)
        solutions ==
            CASE type = "two_real" ->
                   [type |-> type,
                    x1 |-> [neg_b |-> -b.v, plus_sqrt |-> discriminant, two_a |-> 2 * a.v],
                    x2 |-> [neg_b |-> -b.v, minus_sqrt |-> discriminant, two_a |-> 2 * a.v]]
              [] type = "one_real" ->
                   [type |-> type, x |-> round6q(-b.v, 2 * a.v)]
              [] OTHER ->
                   [type |-> type,
                    x1 |-> <<round6q(-b.v, 2 * a.v), " + ",
                             [sqrt |-> -discriminant, two_a |-> 2 * a.v], "i">>,
                    x2 |-> <<round6q(-b.v, 2 * a.v), " - ",
                             [sqrt |-> -discriminant, two_a |-> 2 * a.v], "i">>]
        response == [equation |-> <<float_str(a.v), "x^2 + ", float_str(b.v), "x + ",
                                    float_str(c.v), " = 0">>,
                     discriminant |-> round6(discriminant, 1),
                     solutions |-> solutions]
        given == <<"Given: ", float_str(a.v), "x^2 + ", float_str(b.v), "x + ",
                   float_str(c.v), " = 0">>
        steps ==
            CASE type = "two_real" ->
                   << given,
                      <<"Discriminant: D = b^2 - 4ac = ", round6(discriminant, 1)>>,
                      <<"x = (-b +/- sqrt(D)) / 2a">>,
                      <<"x1 = (", float_str(-b.v), " + sqrt(", float_str(discriminant),
                        ")) / ", float_str(2 * a.v), " = ", solutions.x1>>,
                      <<"x2 = (", float_str(-b.v), " - sqrt(", float_str(discriminant),
                        ")) / ", float_str(2 * a.v), " = ", solutions.x2>> >>
              [] type = "one_real" ->
                   << given,
                      <<"Discriminant: D = 0 (one solution)">>,
                      <<"x = -b / 2a = ", float_str(-b.v), " / ", float_str(2 * a.v),
                        " = ", solutions.x>> >>
              [] OTHER ->
                   << given,
                      <<"Discriminant: D = ", round6(discriminant, 1), " (complex roots)">>,
                      <<"x = (-b +/- i sqrt(|D|)) / 2a">>,
                      <<"x1 = ">> \o solutions.x1,
                      <<"x2 = ">> \o solutions.x2 >>
    IN  IF a.exc # "" THEN Raise(a.exc)
        ELSE IF b.exc # "" THEN Raise(b.exc)
        ELSE IF c.exc # "" THEN Raise(c.exc)
        ELSE IF a.v = 0
        THEN Reply(400, [error |-> "Coefficient 'a' cannot be zero"])
        ELSE Logged("/api/algebra/quadratic", data,
                 IF show_steps THEN response @@ [steps |-> steps] ELSE response)

\* ------------------------------------------------------------- geometry

\* Metrics that need pi or a square root are kept in closed form, each standing
\* for the value rounded to 6 places: pi * num / den, sqrt(radicand), k * sqrt(3).
PiTimes(num, den) == [pi_times |-> Rat(num, den)]
SqrtOf(radicand) == [sqrt_of |-> radicand]

\* POST /api/geometry/circle
circle(data) ==
    LET radius == floatInt(get(data, "radius", Num(0)))
        r == radius.v
    IN  IF radius.exc # "" THEN Raise(radius.exc)
        ELSE IF r <= 0 THEN Reply(400, [error |-> "Radius must be positive"])
        ELSE Logged("/api/geometry/circle", data,
                 [shape |-> "circle", radius |-> r,
                  area |-> PiTimes(r * r, 1),
                  circumference |-> PiTimes(2 * r, 1),
                  diameter |-> round6(2 * r, 1)])

\* POST /api/geometry/rectangle
rectangle(data) ==
    LET length == floatInt(get(data, "length", Num(0)))
        width == floatInt(get(data, "width", Num(0)))
        l == length.v
        w == width.v
    IN  IF length.exc # "" THEN Raise(length.exc)
        ELSE IF width.exc # "" THEN Raise(width.exc)
        ELSE IF l <= 0 \/ w <= 0 THEN Reply(400, [error |-> "Dimensions must be positive"])
        ELSE Logged("/api/geometry/rectangle", data,
                 [shape |-> "rectangle", length |-> l, width |-> w,
                  area |-> round6(l * w, 1),
                  perimeter |-> round6(2 * (l + w), 1),
                  diagonal |-> SqrtOf(l * l + w * w)])

\* POST /api/geometry/triangle: side_a and side_b default to base and are not
\* tested before the perimeter is computed.
triangle(data) ==
    LET base == floatInt(get(data, "base", Num(0)))
        height == floatInt(get(data, "height", Num(0)))
        side_a == floatInt(get(data, "side_a", Num(base.v)))
        side_b == floatInt(get(data, "side_b", Num(base.v)))
    IN  IF base.exc # "" THEN Raise(base.exc)
        ELSE IF height.exc # "" THEN Raise(height.exc)
        ELSE IF side_a.exc # "" THEN Raise(side_a.exc)
        ELSE IF side_b.exc # "" THEN Raise(side_b.exc)
        ELSE IF base.v <= 0 \/ height.v <= 0
        THEN Reply(400, [error |-> "Base and height must be positive"])
        ELSE Logged("/api/geometry/triangle", data,
                 [shape |-> "triangle", base |-> base.v, height |-> height.v,
                  area |-> round6(base.v * height.v, 2),
                  perimeter |-> round6(base.v + side_a.v + side_b.v, 1)])

\* POST /api/geometry/cube
cube(data) ==
    LET side == floatInt(get(data, "side", Num(0)))
        sd == side.v
    IN  IF side.exc # "" THEN Raise(side.exc)
        ELSE IF sd <= 0 THEN Reply(400, [error |-> "Side length must be positive"])
        ELSE Logged("/api/geometry/cube", data,
                 [shape |-> "cube", side |-> sd,
                  volume |-> round6(sd * sd * sd, 1),
                  surface_area |-> round6(6 * sd * sd, 1),
                  space_diagonal |-> [times_sqrt3 |-> sd]])

\* POST /api/geometry/sphere
sphere(data) ==
    LET radius == floatInt(get(data, "radius", Num(0)))
        r == radius.v
    IN  IF radius.exc # "" THEN Raise(radius.exc)
        ELSE IF r <= 0 THEN Reply(400, [error |-> "Radius must be positive"])
        ELSE Logged("/api/geometry/sphere", data,
                 [shape |-> "sphere", radius |-> r,
                  volume |-> PiTimes(4 * r * r * r, 3),
                  surface_area |-> PiTimes(4 * r * r, 1)])

\* ----------------------------------------------------------- statistics

RECURSIVE Sum(_)
Sum(xs) == IF xs = <<>> THEN 0 ELSE Head(xs) + Sum(Tail(xs))

SeqMax(xs) == CHOOSE m \in {xs[i] : i \in 1 .. Len(xs)} : \A i \in 1 .. Len(xs) : xs[i] <= m
SeqMin(xs) == CHOOSE m \in {xs[i] : i \in 1 .. Len(xs)} : \A i \in 1 .. Len(xs) : m <= xs[i]

\* Counter(dataset)[x]
Freq(xs, x) == Cardinality({i \in 1 .. Len(xs) : xs[i] = x})

\* the keys of Counter(dataset), in order of first occurrence, whose count is the
\* highest
RECURSIVE ModeFrom(_, _, _)
ModeFrom(xs, i, max_freq) ==
    IF i > Len(xs) THEN <<>>
    ELSE IF Freq(xs, xs[i]) = max_freq /\ \A j \in 1 .. i - 1 : xs[j] # xs[i]
         THEN <<xs[i]>> \o ModeFrom(xs, i + 1, max_freq)
         ELSE ModeFrom(xs, i + 1, max_freq)

\* the first exception of [float(x) for x in dataset], or ""
RECURSIVE FirstExc(_)
FirstExc(xs) == IF xs = <<>> THEN ""
                ELSE IF floatInt(Head(xs)).exc # "" THEN floatInt(Head(xs)).exc
                ELSE FirstExc(Tail(xs))

\* POST /api/statistics
statistics(data) ==
    LET raw == get(data, "data", List(<<>>))
        dataset == [i \in 1 .. Len(raw.v) |-> floatInt(raw.v[i]).v]
        n == Len(dataset)
        total == Sum(dataset)
        sorted_data == SortSeq(dataset, LAMBDA x, y : x < y)
        median == IF n % 2 = 0
                  THEN round6(sorted_data[n \div 2] + sorted_data[n \div 2 + 1], 2)
                  ELSE round6(sorted_data[n \div 2 + 1], 1)
        max_freq == SeqMax([i \in 1 .. n |-> Freq(dataset, dataset[i])])
        mode_val == ModeFrom(dataset, 1, max_freq)
        \* sum((x - mean)**2) / n = (n * sum(x*x) - sum(x)**2) / n**2
        var_num == n * Sum([i \in 1 .. n |-> dataset[i] * dataset[i]]) - total * total
    IN  IF ~truthy(raw) \/ raw.t # "list"
        THEN Reply(400, [error |-> "Invalid dataset. Provide an array of numbers."])
        ELSE IF FirstExc(raw.v) # "" THEN Raise(FirstExc(raw.v))
        ELSE Logged("/api/statistics", data,
                 [dataset_size |-> n,
                  mean |-> round6(total, n),
                  median |-> median,
                  mode |-> IF Len(mode_val) < n THEN [values |-> mode_val]
                           ELSE [values |-> "No mode"],
                  variance |-> round6(var_num, n * n),
                  standard_deviation |-> SqrtOf(Rat(var_num, n * n)),
                  range |-> round6(SeqMax(dataset) - SeqMin(dataset), 1),
                  min |-> SeqMin(dataset),
                  max |-> SeqMax(dataset)])

\* ------------------------------------------------------------------ quiz

\* the string literals of the quiz code, as character sequences
S_arithmetic == <<"a", "r", "i", "t", "h", "m", "e", "t", "i", "c">>
S_algebra == <<"a", "l", "g", "e", "b", "r", "a">>
S_geometry == <<"g", "e", "o", "m", "e", "t", "r", "y">>
S_circle == <<"c", "i", "r", "c", "l", "e">>
S_add == <<"a", "d", "d">>
S_subtract == <<"s", "u", "b", "t", "r", "a", "c", "t">>
S_multiply == <<"m", "u", "l", "t", "i", "p", "l", "y">>

\* quiz_types, and the ranges of random.randint / random.choice
QuizTypes == {S_arithmetic, S_algebra, S_geometry}
QuizOps == {S_add, S_subtract, S_multiply}
OperandMax == 100
CoefMax == 10
ConstMax == 20
RadiusMax == 20

\* "_".join(parts)
RECURSIVE join_(_)
join_(parts) == IF Len(parts) = 1 THEN parts[1]
                ELSE parts[1] \o <<"_">> \o join_(Tail(parts))

\* round(math.pi * radius**2, 2) in hundredths: 100*pi = 314.159265...
circle_area_cents(radius) ==
    LET sq == radius * radius
    IN  sq * 314 + RoundDiv(sq * 159265, Million)

\* operations[op] of the arithmetic family
quiz_operation(a, b, op) ==
    CASE op = S_add -> a + b
      [] op = S_subtract -> a - b
      [] op = S_multiply -> a * b

\* the symbol shown in the question ("*" stands for the multiplication sign)
quiz_symbol(op) ==
    CASE op = S_add -> "+"
      [] op = S_subtract -> "-"
      [] op = S_multiply -> "*"

\* A mutation of the key format: the constant is written without its sign.
algebra_answer_id_unsigned(a, b) == join_(<<S_algebra, str(a), str(Abs(b))>>)

\* f"algebra_{a}_{b}"
algebra_answer_id(a, b) == join_(<<S_algebra, str(a), str(b)>>)

\* GET /api/quiz?type=... with the values the random draws produced.  The
\* result carries, beside the response, the answer the generator computed (it is
\* not part of the response).  A type outside quiz_types falls off the end of
\* the function: the view returns None and the framework answers 500.
generate_quiz(quiz_type, rnd) ==
    IF quiz_type = S_arithmetic
    THEN [status |-> 200, log |-> <<>>,
          body |-> [type |-> "arithmetic",
                    question |-> <<"What is ", str(rnd.a), " ", quiz_symbol(rnd.op), " ", str(rnd.b), "?">>,
                    answer_id |-> join_(<<quiz_type, str(rnd.a), str(rnd.b), rnd.op>>),
                    difficulty |-> "easy"],
          answer |-> Rat(quiz_operation(rnd.a, rnd.b, rnd.op), 1)]
    ELSE IF quiz_type = S_algebra
    THEN [status |-> 200, log |-> <<>>,
          body |-> [type |-> "linear_equation",
                    question |-> <<"Solve for x: ", str(rnd.a), "x + ", str(rnd.b), " = 0">>,
                    answer_id |-> algebra_answer_id(rnd.a, rnd.b),
                    difficulty |-> "medium"],
          answer |-> Rat(-rnd.b, rnd.a)]
    ELSE IF quiz_type = S_geometry
    THEN [status |-> 200, log |-> <<>>,
          body |-> [type |-> "geometry",
                    question |-> <<"What is the area of a circle with radius ",
                                   str(rnd.radius), "?">>,
                    answer_id |-> join_(<<S_circle, str(rnd.radius)>>),
                    difficulty |-> "medium",
                    unit |-> "square units"],
          answer |-> Rat(circle_area_cents(rnd.radius), 100)]
    ELSE [status |-> 500, log |-> <<>>, body |-> [error |-> "TypeError"], answer |-> Rat(0, 1)]

\* abs(user_answer - correct_answer) < 0.01
is_correct(user_answer, correct_answer) ==
    100 * Abs(user_answer.num * correct_answer.den - correct_answer.num * user_answer.den)
        < user_answer.den * correct_answer.den

\* the family branches of validate_quiz: the correct answer as a rational, or
\* the exception raised on the way (parts[i] beyond the list: IndexError;
\* int() of a non-integer: ValueError; operations[op] of an unknown op:
\* KeyError; -b / a with a = 0: ZeroDivisionError), or no family at all.
correct_answer_of(parts) ==
    LET n == Len(parts)
        p1 == int(parts[2])
        p2 == int(parts[3])
    IN  IF parts[1] = S_arithmetic
        THEN IF n < 2 THEN Raise("IndexError")
             ELSE IF p1.exc # "" THEN Raise(p1.exc)
             ELSE IF n < 3 THEN Raise("IndexError")
             ELSE IF p2.exc # "" THEN Raise(p2.exc)
             ELSE IF n < 4 THEN Raise("IndexError")
             ELSE IF parts[4] \notin QuizOps THEN Raise("KeyError")
             ELSE [v |-> Rat(quiz_operation(p1.v, p2.v, parts[4]), 1)]
        ELSE IF parts[1] = S_algebra
        THEN IF n < 2 THEN Raise("IndexError")
             ELSE IF p1.exc # "" THEN Raise(p1.exc)
             ELSE IF n < 3 THEN Raise("IndexError")
             ELSE IF p2.exc # "" THEN Raise(p2.exc)
             ELSE IF p1.v = 0 THEN Raise("ZeroDivisionError")
             ELSE [v |-> Rat(-p2.v, p1.v)]
        ELSE IF parts[1] = S_circle
        THEN IF n < 2 THEN Raise("IndexError")
             ELSE IF p1.exc # "" THEN Raise(p1.exc)
             ELSE [v |-> Rat(circle_area_cents(p1.v), 100)]
        ELSE [unknown |-> TRUE]

\* POST /api/quiz/validate
validate_quiz(data) ==
    LET answer_id == get(data, "answer_id", StrV(<<>>))
        user_answer == float(get(data, "answer", Num(0)))
        parts == split(answer_id.v, "_")
        correct == correct_answer_of(parts)
        ok == is_correct(user_answer.v, correct.v)
    IN  IF user_answer.exc # "" THEN Raise(user_answer.exc)
        ELSE IF answer_id.t # "str" THEN Raise("AttributeError")
        ELSE IF "exc" \in DOMAIN correct THEN correct
        ELSE IF "unknown" \in DOMAIN correct
        THEN Reply(400, [error |-> "Invalid answer_id"])
        ELSE Reply(200, [correct |-> ok,
                         user_answer |-> user_answer.v,
                         correct_answer |-> round6(correct.v.num, correct.v.den),
                         message |-> IF ok THEN "Correct! Well done!"
                                     ELSE "Incorrect. Try again!"])

\* ---------------------------------------------------------------- the log

\* A mutation of log_query that evicts the newest entry instead of the oldest.
log_query_pop_last(history, entry) ==
    LET h == Append(history, entry)
    IN  IF Len(h) > HistoryCap THEN SubSeq(h, 1, Len(h) - 1) ELSE h

\* log_query: append, then pop(0) when the length exceeds the capacity.
log_query(history, entry) ==
    LET h == Append(history, entry)
    IN  IF Len(h) > HistoryCap THEN Tail(h) ELSE h

\* Python's history[-limit:] : start = len - limit clamped to 0 for limit > 0,
\* start = -limit clamped to len for limit < 0, and -0 is 0: the whole list.
SliceFromMinus(history, limit) ==
    LET n == Len(history)
        start == IF limit > 0 THEN Max(n - limit, 0)
                 ELSE Min(-limit, n)
    IN  SubSeq(history, start + 1, n)

\* get_history: limit = int(request.args.get('limit', 20)); the route has no
\* handle_errors wrapper, so a ValueError from int() leaves the view and the
\* framework answers 500.
get_history(history, args) ==
    LET raw == IF "limit" \in DOMAIN args THEN int(args["limit"])
               ELSE [exc |-> "", v |-> DefaultLimit]
    IN  IF raw.exc # ""
        THEN [status |-> 500, body |-> [error |-> raw.exc]]
        ELSE [status |-> 200,
              body |-> [total_queries |-> Len(history),
                        history |-> SliceFromMinus(history, raw.v)]]

\* GET /api/history?limit=N
GetHistory(args) ==
    /\ last' = [endpoint |-> "/api/history", input |-> args] @@ get_history(query_history, args)
    /\ UNCHANGED <<query_history, appended, quiz, pc, count, errors>>

\* DELETE /api/history/clear (executed without interleaving)
ClearHistory ==
    /\ query_history' = <<>>
    /\ appended' = 0
    /\ last' = [endpoint |-> "/api/history/clear", input |-> Missing, status |-> 200,
                body |-> [cleared |-> Len(query_history)]]
    /\ UNCHANGED <<quiz, pc, count, errors>>

\* A handler's successful completion reaching log_query with its entry; in the
\* log model the entry is named by its arrival number since the last clear.
LogQueryCall ==
    /\ appended < MaxAppends
    /\ query_history' = log_query(query_history, appended + 1)
    /\ appended' = appended + 1
    /\ last' = [endpoint |-> "log_query", input |-> appended + 1, status |-> 200,
                body |-> Missing]
    /\ UNCHANGED <<quiz, pc, count, errors>>

\* query strings asked of /api/history: no limit, limits around the default and
\* the capacity, small and negative ones, and one that is no integer
LimitArgs ==
    {EmptyObject}
    \cup {[limit |-> str(n)] : n \in {DefaultLimit, HistoryCap, HistoryCap + 1} \cup (-1 .. MaxLimit)}
    \cup {[limit |-> <<"a", "b", "c">>]}

InitCommon ==
    /\ query_history = <<>>
    /\ appended = 0
    /\ last = NoRequest
    /\ nreq = 0
    /\ quiz = NoQuiz
    /\ pc = <<>>
    /\ count = <<>>
    /\ errors = {}

\* -------------------------------------------------------------- requests

\* A request served from start to end: the handler under handle_errors, its
\* log_query call when it reaches one, and the response.
Serve(endpoint, data, result) ==
    LET out == handle_errors(result)
    IN  /\ query_history' = IF out.log = <<>> THEN query_history
                            ELSE log_query(query_history, out.log[1])
        /\ appended' = appended + Len(out.log)
        /\ last' = [endpoint |-> endpoint, input |-> data, status |-> out.status,
                    body |-> out.body]
        /\ UNCHANGED <<quiz, pc, count, errors>>

Arithmetic(data) == Serve("/api/arithmetic", data, arithmetic(data))
SolveLinear(data) == Serve("/api/algebra/linear", data, solve_linear(data))
SolveQuadratic(data) == Serve("/api/algebra/quadratic", data, solve_quadratic(data))
Circle(data) == Serve("/api/geometry/circle", data, circle(data))
Rectangle(data) == Serve("/api/geometry/rectangle", data, rectangle(data))
Triangle(data) == Serve("/api/geometry/triangle", data, triangle(data))
Cube(data) == Serve("/api/geometry/cube", data, cube(data))
Sphere(data) == Serve("/api/geometry/sphere", data, sphere(data))
Statistics(data) == Serve("/api/statistics", data, statistics(data))

\* GET /api/quiz: quiz_type is the 'type' argument, or else random.choice; rnd
\* holds the random draws.  The client keeps the question with the answer the
\* generator computed for it.
GenerateQuiz(args, rnd) ==
    LET out == handle_errors(generate_quiz(get(args, "type", rnd.choice), rnd))
    IN  /\ last' = [endpoint |-> "/api/quiz", input |-> args, status |-> out.status,
                    body |-> out.body]
        /\ query_history' = IF out.log = <<>> THEN query_history
                            ELSE log_query(query_history, out.log[1])
        /\ appended' = appended + Len(out.log)
        /\ quiz' = IF out.status = 200
                   THEN [state |-> "held", type |-> out.body.type,
                         answer_id |-> out.body.answer_id,
                         answer |-> out.answer, rnd |-> rnd]
                   ELSE NoQuiz
        /\ UNCHANGED <<pc, count, errors>>

\* POST /api/quiz/validate.  A client that submits the key of the question it
\* holds has answered it.
ValidateQuiz(data) ==
    LET out == handle_errors(validate_quiz(data))
    IN  /\ last' = [endpoint |-> "/api/quiz/validate", input |-> data,
                    status |-> out.status, body |-> out.body]
        /\ query_history' = IF out.log = <<>> THEN query_history
                            ELSE log_query(query_history, out.log[1])
        /\ appended' = appended + Len(out.log)
        /\ quiz' = IF quiz.state = "held" /\ "answer_id" \in DOMAIN data
                      /\ data["answer_id"] = StrV(quiz.answer_id)
                   THEN [quiz EXCEPT !.state = "answered"] ELSE quiz
        /\ UNCHANGED <<pc, count, errors>>

\* How a model schedules a request: counted against a budget of max requests,
\* or uncounted.
Within(max, A) == nreq < max /\ nreq' = nreq + 1 /\ A
Free(A) == nreq' = nreq /\ A

\* ------------------------------------------------------------ the log model

NextLog ==
    \/ Free(LogQueryCall)
    \/ Free(ClearHistory)
    \/ \E args \in LimitArgs : Free(GetHistory(args))

SpecLog == InitCommon /\ [][NextLog]_vars

\* ------------------------------------------------------------- the quiz model

ArithmeticDraws(A, B) ==
    {[choice |-> S_arithmetic, a |-> x, b |-> y, op |-> o] : x \in A, y \in B, o \in QuizOps}
AlgebraDraws(A, B) == {[choice |-> S_algebra, a |-> x, b |-> y] : x \in A, y \in B}
GeometryDraws(R) == {[choice |-> S_geometry, radius |-> r] : r \in R}

\* every outcome of the random draws of generate_quiz
AllDraws ==
    ArithmeticDraws(1 .. OperandMax, 1 .. OperandMax)
    \cup AlgebraDraws(1 .. CoefMax, -ConstMax .. ConstMax)
    \cup GeometryDraws(1 .. RadiusMax)

\* the draws at the ends of their ranges
EdgeDraws ==
    ArithmeticDraws({1, OperandMax}, {OperandMax}) \cup AlgebraDraws({CoefMax}, {-ConstMax, 0})
    \cup GeometryDraws({RadiusMax})

\* answer_ids no generated question carries: unknown family tags, too few
\* fields, fields that are no integers, an unknown operation, a zero coefficient
MalformedIds ==
    {<<>>,   \* ''
     <<"t", "r", "i", "g", "_", "1", "_", "2">>,   \* 'trig_1_2'
     <<"g", "e", "o", "m", "e", "t", "r", "y", "_", "5">>,   \* 'geometry_5'
     <<"a", "r", "i", "t", "h", "m", "e", "t", "i", "c">>,   \* 'arithmetic'
     <<"a", "r", "i", "t", "h", "m", "e", "t", "i", "c", "_", "1">>,   \* 'arithmetic_1'
     <<"a", "r", "i", "t", "h", "m", "e", "t", "i", "c", "_", "1", "_", "2">>,   \* 'arithmetic_1_2'
     <<"a", "r", "i", "t", "h", "m", "e", "t", "i", "c", "_", "x", "_", "2", "_", "a", "d", "d">>,   \* 'arithmetic_x_2_add'
     <<"a", "r", "i", "t", "h", "m", "e", "t", "i", "c", "_", "1", "_", "y", "_", "a", "d", "d">>,   \* 'arithmetic_1_y_add'
     <<"a", "r", "i", "t", "h", "m", "e", "t", "i", "c", "_", "1", "_", "2", "_", "d", "i", "v", "i", "d", "e">>,   \* 'arithmetic_1_2_divide'
     <<"a", "r", "i", "t", "h", "m", "e", "t", "i", "c", "_", "1", "_", "2", "_">>,   \* 'arithmetic_1_2_'
     <<"a", "l", "g", "e", "b", "r", "a">>,   \* 'algebra'
     <<"a", "l", "g", "e", "b", "r", "a", "_", "3">>,   \* 'algebra_3'
     <<"a", "l", "g", "e", "b", "r", "a", "_", "x", "_", "1">>,   \* 'algebra_x_1'
     <<"a", "l", "g", "e", "b", "r", "a", "_", "3", "_", "1", ".", "5">>,   \* 'algebra_3_1.5'
     <<"a", "l", "g", "e", "b", "r", "a", "_", "0", "_", "5">>,   \* 'algebra_0_5'
     <<"c", "i", "r", "c", "l", "e">>,   \* 'circle'
     <<"c", "i", "r", "c", "l", "e", "_", "r">>,   \* 'circle_r'
     <<"c", "i", "r", "c", "l", "e", "_">>}   \* 'circle_'


\* the submissions of a client that holds a question: the generator's answer for
\* it, and that answer plus 1
OwnSubmissions ==
    IF quiz.state # "held" THEN {}
    ELSE {[answer_id |-> StrV(quiz.answer_id),
           answer |-> RatV(quiz.answer.num + k * quiz.answer.den, quiz.answer.den)] : k \in {0, 1}}

\* the submissions of a client that holds none: a malformed key, no key, null
\* for the key, an answer that is no number
ForeignSubmissions ==
    IF quiz.state # "none" THEN {}
    ELSE {[answer_id |-> StrV(id), answer |-> Num(0)] : id \in MalformedIds}
         \cup {[answer |-> Num(0)], [answer_id |-> Null, answer |-> Num(0)],
               [answer_id |-> StrV(<<"c", "i", "r", "c", "l", "e", "_", "2">>),
                answer |-> StrV("abc")]}

\* In the quiz model a question is asked for as the first request of a run.
FirstDraws(draws) == IF last = NoRequest THEN draws ELSE {}

NextQuiz ==
    \/ \E rnd \in FirstDraws(AllDraws) : Free(GenerateQuiz(EmptyObject, rnd))
    \/ \E rnd \in FirstDraws(EdgeDraws) : Free(GenerateQuiz([type |-> rnd.choice], rnd))
    \/ \E rnd \in FirstDraws(EdgeDraws) :
          Free(GenerateQuiz([type |-> <<"t", "r", "i", "g">>], rnd))
    \/ \E data \in OwnSubmissions : Free(ValidateQuiz(data))
    \/ \E data \in ForeignSubmissions : Free(ValidateQuiz(data))

SpecQuiz == InitCommon /\ [][NextQuiz]_vars

\* ---------------------------------------------------------- the algebra model

Coefs == -MaxCoef .. MaxCoef

LinearBodies ==
    {[a |-> Num(x), b |-> Num(y)] : x \in Coefs, y \in Coefs}
    \cup {[b |-> Num(y)] : y \in Coefs}
    \cup {[a |-> Num(x), b |-> Num(1), steps |-> Bool(TRUE)] : x \in Coefs}

QuadraticBodies ==
    {[a |-> Num(x), b |-> Num(y), c |-> Num(z)] : x \in Coefs, y \in Coefs, z \in Coefs}
    \cup {[b |-> Num(y), c |-> Num(z)] : y \in Coefs, z \in Coefs}
    \cup {[a |-> Num(x), b |-> Num(2), c |-> Num(1), steps |-> Bool(TRUE)] : x \in Coefs}

\* one equation per run
NextAlgebra ==
    \/ \E data \in LinearBodies : Within(1, SolveLinear(data))
    \/ \E data \in QuadraticBodies : Within(1, SolveQuadratic(data))

SpecAlgebra == InitCommon /\ [][NextAlgebra]_vars

\* ------------------------------------------------------- the server model

ArithmeticSamples ==
    {[operation |-> StrV(o), a |-> Num(3), b |-> Num(y)] :
        o \in {"add", "divide", "power"}, y \in {0, 2}}
    \cup {[operation |-> StrV("divide"), a |-> Num(3), b |-> Num(2), fractions |-> Bool(TRUE)],
          [a |-> Num(3), b |-> Num(2)],
          [operation |-> StrV("add"), a |-> StrV("abc"), b |-> Num(2)],
          [operation |-> StrV("add"), a |-> Num(1), b |-> List(<<>>)]}

LinearSamples ==
    {[a |-> Num(3), b |-> Num(1)], [a |-> Num(0), b |-> Num(1)], [b |-> Num(1)],
     [a |-> Num(3), b |-> Num(1), steps |-> Bool(TRUE)], [a |-> StrV("abc"), b |-> Num(1)]}

QuadraticSamples ==
    {[a |-> Num(1), b |-> Num(-3), c |-> Num(2)], [a |-> Num(1), b |-> Num(2), c |-> Num(1)],
     [a |-> Num(1), b |-> Num(0), c |-> Num(1), steps |-> Bool(TRUE)],
     [a |-> Num(0), b |-> Num(1), c |-> Num(1)], [b |-> Num(1), c |-> Num(1)],
     [a |-> Null, b |-> Num(1), c |-> Num(1)]}

RadiusSamples == {[radius |-> Num(2)], [radius |-> Num(0)], [radius |-> Num(-1)], EmptyObject}
SideSamples == {[side |-> Num(2)], [side |-> Num(0)], [side |-> StrV("abc")]}

RectangleSamples ==
    {[length |-> Num(2), width |-> Num(3)], [length |-> Num(0), width |-> Num(3)],
     [length |-> Num(2), width |-> Num(-1)], [length |-> Num(2)]}

TriangleSamples ==
    {[base |-> Num(3), height |-> Num(4)],
     [base |-> Num(3), height |-> Num(4), side_a |-> Num(4), side_b |-> Num(5)],
     [base |-> Num(3), height |-> Num(4), side_a |-> Num(-5)],
     [base |-> Num(3), height |-> Num(4), side_a |-> Num(4), side_b |-> Num(0)],
     [base |-> Num(0), height |-> Num(4)], [base |-> Num(3), height |-> Num(-1)],
     [height |-> Num(4)]}

StatisticsSamples ==
    {[data |-> List(<<Num(1), Num(2), Num(2)>>)], [data |-> List(<<Num(3), Num(1)>>)],
     [data |-> List(<<>>)], EmptyObject, [data |-> Num(5)],
     [data |-> List(<<Num(1), StrV("abc")>>)], [data |-> List(<<Null>>)]}

SampleIds == {<<>>, <<"c", "i", "r", "c", "l", "e">>,
              <<"a", "l", "g", "e", "b", "r", "a", "_", "0", "_", "5">>}

SampleSubmissions ==
    OwnSubmissions
    \cup {[answer_id |-> StrV(id), answer |-> Num(0)] : id \in SampleIds}
    \cup {[answer_id |-> StrV(<<"c", "i", "r", "c", "l", "e", "_", "2">>), answer |-> Num(12)]}

SampleArgs == {EmptyObject, [limit |-> str(1)], [limit |-> <<"a", "b", "c">>]}

Next ==
    \/ \E data \in ArithmeticSamples : Within(MaxRequests, Arithmetic(data))
    \/ \E data \in LinearSamples : Within(MaxRequests, SolveLinear(data))
    \/ \E data \in QuadraticSamples : Within(MaxRequests, SolveQuadratic(data))
    \/ \E data \in RadiusSamples : Within(MaxRequests, Circle(data))
    \/ \E data \in RectangleSamples : Within(MaxRequests, Rectangle(data))
    \/ \E data \in TriangleSamples : Within(MaxRequests, Triangle(data))
    \/ \E data \in SideSamples : Within(MaxRequests, Cube(data))
    \/ \E data \in RadiusSamples : Within(MaxRequests, Sphere(data))
    \/ \E data \in StatisticsSamples : Within(MaxRequests, Statistics(data))
    \/ \E rnd \in EdgeDraws : Within(MaxRequests, GenerateQuiz(EmptyObject, rnd))
    \/ \E rnd \in EdgeDraws :
          Within(MaxRequests, GenerateQuiz([type |-> <<"t", "r", "i", "g">>], rnd))
    \/ \E data \in SampleSubmissions : Within(MaxRequests, ValidateQuiz(data))
    \/ \E args \in SampleArgs : Within(MaxRequests, GetHistory(args))
    \/ Within(MaxRequests, ClearHistory)

Spec == InitCommon /\ [][Next]_vars

\* --------------------------------------------------- the concurrent model

\* Requests run in threads (app.run serves threaded) and no lock guards
\* query_history: the statements of log_query and clear_history interleave.
\* Each list operation (append, len, pop, the assignment) is one step.
Workers == 1 .. NWorkers

\* query_history.append({...})
LogAppend(t) ==
    /\ pc[t] = "idle"
    /\ appended < MaxAppends
    /\ query_history' = Append(query_history, appended + 1)
    /\ appended' = appended + 1
    /\ pc' = [pc EXCEPT ![t] = "appended"]
    /\ UNCHANGED <<last, nreq, quiz, count, errors>>

\* if len(query_history) > 100
LogCheck(t) ==
    /\ pc[t] = "appended"
    /\ pc' = [pc EXCEPT ![t] = IF Len(query_history) > HistoryCap THEN "pop" ELSE "idle"]
    /\ UNCHANGED <<query_history, appended, last, nreq, quiz, count, errors>>

\* query_history.pop(0): IndexError on an empty list, which handle_errors turns
\* into the request's 500
LogPop(t) ==
    /\ pc[t] = "pop"
    /\ pc' = [pc EXCEPT ![t] = "idle"]
    /\ IF query_history = <<>>
       THEN errors' = errors \cup {t} /\ UNCHANGED query_history
       ELSE query_history' = Tail(query_history) /\ UNCHANGED errors
    /\ UNCHANGED <<appended, last, nreq, quiz, count>>

\* count = len(query_history)
ClearRead ==
    /\ count = <<>>
    /\ count' = <<Len(query_history)>>
    /\ UNCHANGED <<query_history, appended, last, nreq, quiz, pc, errors>>

\* query_history = []
ClearReplace ==
    /\ count # <<>>
    /\ query_history' = <<>>
    /\ appended' = 0
    /\ count' = <<>>
    /\ UNCHANGED <<last, nreq, quiz, pc, errors>>

InitConc ==
    /\ query_history = <<>>
    /\ appended = 0
    /\ last = NoRequest
    /\ nreq = 0
    /\ quiz = NoQuiz
    /\ pc = [t \in Workers |-> "idle"]
    /\ count = <<>>
    /\ errors = {}

NextConc ==
    \/ \E t \in Workers : LogAppend(t) \/ LogCheck(t) \/ LogPop(t)
    \/ ClearRead
    \/ ClearReplace

SpecConc == InitConc /\ [][NextConc]_vars

\* ------------------------------------------------------------------ claims

\* the last n entries of s, oldest first
LastN(s, n) == SubSeq(s, Len(s) - n + 1, Len(s))

\* C1: after any sequence of appends and clears from the empty log, the log
\* holds between 0 and 100 entries, and they are the last min(k, 100) of the k
\* entries appended since the most recent clear, oldest first.
C1_LogKeepsLastHundred ==
    LET kept == Min(appended, HistoryCap)
    IN  /\ Len(query_history) \in 0 .. HistoryCap
        /\ query_history = [i \in 1 .. kept |-> appended - kept + i]

\* 150 appends since the last clear have happened and entries 51..150 remain
C1_Witness ==
    /\ appended = HistoryCap + 50
    /\ Len(query_history) = HistoryCap
    /\ query_history[1] = 51
    /\ query_history[HistoryCap] = HistoryCap + 50

\* the limit a served history read was asked with (20 when omitted)
ReadLimit == IF "limit" \in DOMAIN last.input THEN int(last.input["limit"]).v ELSE DefaultLimit

HistoryRead == last.endpoint = "/api/history" /\ last.status = 200

\* C2: a history read with an integer limit >= 0 (20 when omitted) returns exactly
\* min(limit, length) entries, the most recent ones, oldest first.
C2_ReadReturnsMostRecentLimit ==
    (HistoryRead /\ ReadLimit >= 0) =>
        /\ Len(last.body.history) = Min(ReadLimit, Len(query_history))
        /\ last.body.history = LastN(query_history, Min(ReadLimit, Len(query_history)))

FormulaEndpoints ==
    {"/api/arithmetic", "/api/algebra/linear", "/api/algebra/quadratic",
     "/api/geometry/circle", "/api/geometry/rectangle", "/api/geometry/triangle",
     "/api/geometry/cube", "/api/geometry/sphere", "/api/statistics"}
QuizEndpoints == {"/api/quiz", "/api/quiz/validate"}

\* the step serves a request, which ends with the given statuses at the endpoints
Served(endpoints, statuses) ==
    /\ nreq' = nreq + 1
    /\ last'.endpoint \in endpoints
    /\ last'.status \in statuses

\* the step appends exactly one entry, the served request's
AppendsItsEntry ==
    LET entry == [endpoint |-> last'.endpoint, input |-> last'.input, output |-> last'.body]
    IN  /\ query_history' # <<>>
        /\ query_history'[Len(query_history')] = entry
        /\ Len(query_history) < HistoryCap => query_history' = Append(query_history, entry)

QuizParts == split(quiz.answer_id, "_")

\* C4: for every question the generator can produce, the answer_id decodes to
\* the generator's family and parameters and to its answer; submitting that
\* answer yields correct = true, submitting it plus 1 yields correct = false.
C4_QuizRoundTrip ==
    /\ quiz.state # "none" =>
         /\ correct_answer_of(QuizParts) = [v |-> quiz.answer]
         /\ quiz.type = "arithmetic" =>
              /\ QuizParts[1] = S_arithmetic
              /\ int(QuizParts[2]) = [exc |-> "", v |-> quiz.rnd.a]
              /\ int(QuizParts[3]) = [exc |-> "", v |-> quiz.rnd.b]
              /\ QuizParts[4] = quiz.rnd.op
         /\ quiz.type = "linear_equation" =>
              /\ QuizParts[1] = S_algebra
              /\ int(QuizParts[2]) = [exc |-> "", v |-> quiz.rnd.a]
              /\ int(QuizParts[3]) = [exc |-> "", v |-> quiz.rnd.b]
         /\ quiz.type = "geometry" =>
              /\ QuizParts[1] = S_circle
              /\ int(QuizParts[2]) = [exc |-> "", v |-> quiz.rnd.radius]
    /\ quiz.state = "answered" =>
         /\ last.status = 200
         /\ last.body.correct <=> last.input.answer.v = quiz.answer

\* an algebra question with a negative constant was answered correctly
C4_Witness ==
    /\ quiz.state = "answered"
    /\ quiz.type = "linear_equation"
    /\ quiz.rnd.b < 0
    /\ last.body.correct

\* C5: validating an answer_id whose family tag is unrecognized or that is
\* malformed ends in a 400 outcome, never a 500 or a verdict.
C5_MalformedKeyIs400 ==
    (/\ last.endpoint = "/api/quiz/validate"
     /\ last.input \in {[answer_id |-> StrV(id), answer |-> Num(0)] : id \in MalformedIds})
        => last.status = 400

GeometryEndpoints ==
    {"/api/geometry/circle", "/api/geometry/rectangle", "/api/geometry/triangle",
     "/api/geometry/cube", "/api/geometry/sphere"}

\* the dimensions a geometry request supplies or defaults, as the handler reads
\* them
Dimensions(endpoint, data) ==
    LET dim(key, default) == floatInt(get(data, key, Num(default))).v
    IN  CASE endpoint \in {"/api/geometry/circle", "/api/geometry/sphere"} -> {dim("radius", 0)}
          [] endpoint = "/api/geometry/rectangle" -> {dim("length", 0), dim("width", 0)}
          [] endpoint = "/api/geometry/cube" -> {dim("side", 0)}
          [] endpoint = "/api/geometry/triangle" ->
                {dim("base", 0), dim("height", 0),
                 dim("side_a", dim("base", 0)), dim("side_b", dim("base", 0))}

\* C6: a geometry request is served only if every dimension supplied or
\* defaulted for the shape is strictly positive.
C6_GeometryDimensionsPositive ==
    (last.endpoint \in GeometryEndpoints /\ last.status = 200)
        => \A d \in Dimensions(last.endpoint, last.input) : d > 0

\* the coefficient of a served equation (0 when the field is absent)
Coef(key) == get(last.input, key, Num(0)).v

\* C7: the quadratic solver answers 400 without roots when a = 0; when a # 0
\* the solution type is two_real iff b^2 - 4ac > 0, one_real iff it is 0, and
\* complex iff it is negative.
C7_QuadraticBranch ==
    last.endpoint = "/api/algebra/quadratic" =>
        LET a == Coef("a")
            d == Coef("b") * Coef("b") - 4 * a * Coef("c")
        IN  /\ a = 0 => last.status = 400 /\ "solutions" \notin DOMAIN last.body
            /\ a # 0 =>
                 /\ last.status = 200
                 /\ last.body.solutions.type = "two_real" <=> d > 0
                 /\ last.body.solutions.type = "one_real" <=> d = 0
                 /\ last.body.solutions.type = "complex" <=> d < 0

\* an equation with a repeated root and b # 0 was solved
C7_Witness ==
    /\ last.endpoint = "/api/algebra/quadratic"
    /\ last.status = 200
    /\ Coef("b") # 0
    /\ last.body.solutions.type = "one_real"

LinearSolved == last.endpoint = "/api/algebra/linear" /\ last.status = 200

\* a*x + b for the x a linear request returned, in millionths
Residual == Coef("a") * Micros(last.body.solution.x) + Coef("b") * Million

\* C8 as stated: the x returned by the linear solver satisfies
\* |a*x + b| <= 1e-6.
C8_ResidualWithinOneMillionth == LinearSolved => Abs(Residual) <= 1

\* C8 amended: the x returned by the linear solver satisfies
\* |a*x + b| <= |a| * 0.5e-6.
C8_ResidualWithinHalfUlpTimesA == LinearSolved => 2 * Abs(Residual) <= Abs(Coef("a"))

\* 7x + 3 = 0 was solved, x = -0.428571, and 7x + 3 is 3e-6
C8_Witness ==
    /\ LinearSolved
    /\ Coef("a") = 7
    /\ Coef("b") = 3
    /\ Micros(last.body.solution.x) = -428571
    /\ Residual = 3

\* C9: for every interleaving of the steps of concurrent log_query calls and
\* clear_history, no log_query fails, and once every operation has finished
\* the log holds, oldest first, the last min(k, 100) of the k entries appended
\* since the last clear.
C9_LogMutationsExclusive ==
    /\ errors = {}
    /\ ((\A t \in Workers : pc[t] = "idle") /\ count = <<>>) =>
          LET kept == Min(appended, HistoryCap)
          IN  query_history = [i \in 1 .. kept |-> appended - kept + i]

\* C10: a request that ends in an error outcome (400 or 500) leaves the log
\* unchanged.
C10_ErrorsLeaveLogUnchanged ==
    [][Served(FormulaEndpoints \cup QuizEndpoints \cup {"/api/history"}, {400, 500})
          => query_history' = query_history]_vars

\* a statistics request ended in 500 while the log held an entry
C10_Witness ==
    /\ last.endpoint = "/api/statistics"
    /\ last.status = 500
    /\ Len(query_history) = 1

=============================================================================
